---------------------------- MODULE Spec2Model ----------------------------
(***************************************************************************)
(* A model of scripts/validate-attributes.py: the AttributeValidator that  *)
(* lints Okta user-attribute YAML definitions (one base file plus the      *)
(* dev, qa, val and prod override files) and the process exit status that  *)
(* main() derives from it.                                                 *)
(*                                                                         *)
(* YAML values are records [kind, val, num]; an attribute record is a      *)
(* function from the field names to such values, Absent marking a key the  *)
(* mapping does not hold.  The validator object is the record              *)
(* [errors, warnings, info, raised, at]: the three finding lists of the    *)
(* Python object, whether an exception is propagating, and the pipeline    *)
(* stage the next finding is discovered in.                                *)
(***************************************************************************)
EXTENDS Naturals, Sequences, FiniteSets, TLC

VARIABLES
    errors,      \* self.errors
    warnings,    \* self.warnings
    info,        \* self.info
    pc,          \* position of the run
    strict,      \* args.strict
    base_data,   \* validate_all's local base_data
    base_attrs,  \* validate_all's local base_attrs
    env_i,       \* index into environments of the loop of validate_all
    arg,         \* the input last read: a file, or the argument of the unit under study
    success,     \* validate_all's return value, as main adjusts it
    exit_code,   \* the process exit status ("none" while running)
    budget       \* input size still available to the files not yet read

vars ==
    <<errors, warnings, info, pc, strict, base_data, base_attrs, env_i, arg, success,
      exit_code, budget>>

-----------------------------------------------------------------------------
(* YAML values as Python sees them *)

Str(s) == [kind |-> "str", val |-> s, num |-> 0]
Int(n) == [kind |-> "int", val |-> "", num |-> n]
Bool(b) == [kind |-> "bool", val |-> "", num |-> IF b THEN 1 ELSE 0]
None == [kind |-> "null", val |-> "", num |-> 0]
\* a list or a mapping of n elements; the elements are not read by the validator
List(n) == [kind |-> "list", val |-> "", num |-> n]
Map(n) == [kind |-> "map", val |-> "", num |-> n]
\* the key is not in the mapping
Absent == [kind |-> "absent", val |-> "", num |-> 0]

IsStr(x) == x.kind = "str"

\* bool(x)
Truthy(x) ==
    CASE x.kind = "str" -> x.val # ""
      [] x.kind \in {"int", "bool", "list", "map"} -> x.num # 0
      [] OTHER -> FALSE

\* hash(x) is defined; lists and mappings raise TypeError
Hashable(x) == x.kind \notin {"list", "map"}

\* x == y
PyEq(x, y) ==
    IF x.kind \in {"int", "bool"} /\ y.kind \in {"int", "bool"}
    THEN x.num = y.num
    ELSE x = y

\* x in S for a set S of str constants, x hashable
InStrSet(x, S) == IsStr(x) /\ x.val \in S

\* x == s for a str constant s
EqStr(x, s) == IsStr(x) /\ x.val = s

-----------------------------------------------------------------------------
(* Strings: TLC's strings are atomic, so the characters of every string of *)
(* the model's inputs and of the code's literals are tabulated.            *)

Chars(s) ==
    CASE s = "" -> <<>>
      [] s = "a" -> <<"a">>
      [] s = "b" -> <<"b">>
      [] s = "job_title" -> <<"j", "o", "b", "_", "t", "i", "t", "l", "e">>
      [] s = "email" -> <<"e", "m", "a", "i", "l">>
      [] s = "secret_code" -> <<"s", "e", "c", "r", "e", "t", "_", "c", "o", "d", "e">>
      [] s = "ghost_attr" -> <<"g", "h", "o", "s", "t", "_", "a", "t", "t", "r">>
      [] s = "mgr_level" -> <<"m", "g", "r", "_", "l", "e", "v", "e", "l">>
      [] s = "_api__KEY" -> <<"_", "a", "p", "i", "_", "_", "K", "E", "Y">>
      [] s = "password" -> <<"p", "a", "s", "s", "w", "o", "r", "d">>
      [] s = "secret" -> <<"s", "e", "c", "r", "e", "t">>
      [] s = "token" -> <<"t", "o", "k", "e", "n">>
      [] s = "key" -> <<"k", "e", "y">>
      [] s = "credential" -> <<"c", "r", "e", "d", "e", "n", "t", "i", "a", "l">>
      [] s = "^[a-z]+$" -> <<"^", "[", "a", "-", "z", "]", "+", "$">>
      [] s = "(" -> <<"(">>

\* the characters of the model's strings in code point order
Alphabet ==
    <<"$", "(", "+", "-", "0", "1", "2", "3", "4", "5", "6", "7", "8", "9",
      "A", "E", "I", "K", "P", "Y", "[", "]", "^", "_",
      "a", "b", "c", "d", "e", "f", "g", "h", "i", "j", "k", "l", "m",
      "n", "o", "p", "q", "r", "s", "t", "u", "v", "w", "x", "y", "z">>

Ord(c) == CHOOSE i \in 1..Len(Alphabet) : Alphabet[i] = c

LowerChars ==
    {"a", "b", "c", "d", "e", "f", "g", "h", "i", "j", "k", "l", "m",
     "n", "o", "p", "q", "r", "s", "t", "u", "v", "w", "x", "y", "z"}

DigitChars == {"0", "1", "2", "3", "4", "5", "6", "7", "8", "9"}

\* str.lower() on one character
ToLower(c) ==
    CASE c = "A" -> "a" [] c = "E" -> "e" [] c = "I" -> "i"
      [] c = "K" -> "k" [] c = "P" -> "p" [] c = "Y" -> "y"
      [] OTHER -> c

LowerOf(cs) == [i \in 1..Len(cs) |-> ToLower(cs[i])]

\* needle in hay
Contains(hay, needle) ==
    \E i \in 1..(Len(hay) + 1) :
        /\ i + Len(needle) - 1 <= Len(hay)
        /\ \A j \in 1..Len(needle) : hay[i + j - 1] = needle[j]

StartsWith(cs, c) == Len(cs) > 0 /\ cs[1] = c
EndsWith(cs, c) == Len(cs) > 0 /\ cs[Len(cs)] = c

\* a > b on two str, character by character
RECURSIVE StrGreaterFrom(_, _, _)
StrGreaterFrom(a, b, i) ==
    IF i > Len(a) THEN FALSE
    ELSE IF i > Len(b) THEN TRUE
    ELSE IF a[i] # b[i] THEN Ord(a[i]) > Ord(b[i])
    ELSE StrGreaterFrom(a, b, i + 1)

\* a > b is defined: numbers with numbers, str with str
Comparable(a, b) ==
    \/ a.kind \in {"int", "bool"} /\ b.kind \in {"int", "bool"}
    \/ IsStr(a) /\ IsStr(b)

PyGreater(a, b) ==
    IF IsStr(a) THEN StrGreaterFrom(Chars(a.val), Chars(b.val), 1) ELSE a.num > b.num

NameMinRest == 1
NameMaxRest == 49

\* the pattern ^[a-z][a-z0-9]{1,49}$, without the underscore
NameMatchesNoUnderscore(cs) ==
    /\ Len(cs) >= 1 + NameMinRest
    /\ Len(cs) <= 1 + NameMaxRest
    /\ cs[1] \in LowerChars
    /\ \A i \in 2..Len(cs) : cs[i] \in LowerChars \cup DigitChars

\* re.match(r'^[a-z][a-z0-9_]{1,49}$', name) on the characters of a str
NameMatches(cs) ==
    /\ Len(cs) >= 1 + NameMinRest
    /\ Len(cs) <= 1 + NameMaxRest
    /\ cs[1] \in LowerChars
    /\ \A i \in 2..Len(cs) : cs[i] \in LowerChars \cup DigitChars \cup {"_"}

\* re.compile(pattern) succeeds, for patterns made of literals, anchors,
\* character sets, groups and the quantifiers + * ?
RECURSIVE ReScan(_, _, _, _)
ReScan(cs, i, depth, inset) ==
    IF i > Len(cs) THEN depth = 0 /\ ~inset
    ELSE IF inset THEN ReScan(cs, i + 1, depth, cs[i] # "]")
    ELSE IF cs[i] = "[" THEN ReScan(cs, i + 1, depth, TRUE)
    ELSE IF cs[i] = "(" THEN ReScan(cs, i + 1, depth + 1, FALSE)
    ELSE IF cs[i] = ")" THEN depth > 0 /\ ReScan(cs, i + 1, depth - 1, FALSE)
    ELSE IF cs[i] \in {"+", "*", "?"} /\ i = 1 THEN FALSE
    ELSE ReScan(cs, i + 1, depth, FALSE)

ReCompiles(cs) == ReScan(cs, 1, 0, FALSE)

-----------------------------------------------------------------------------
(* Rule catalog *)

RESERVED_ATTRIBUTES ==
    {"login", "email", "secondEmail", "firstName", "lastName",
     "middleName", "honorificPrefix", "honorificSuffix", "title",
     "displayName", "nickName", "profileUrl", "primaryPhone",
     "mobilePhone", "streetAddress", "city", "state", "zipCode",
     "countryCode", "postalAddress", "preferredLanguage", "locale",
     "timezone", "userType", "employeeNumber", "costCenter",
     "organization", "division", "department", "managerId", "manager"}

VALID_TYPES == {"string", "boolean", "number", "integer", "array", "object"}
VALID_MASTERS == {"PROFILE_MASTER", "OKTA", "OVERRIDE"}
VALID_PERMISSIONS == {"READ_WRITE", "READ_ONLY", "HIDE"}
VALID_SCOPES == {"NONE", "SELF", "GROUP"}
VALID_UNIQUE == {"UNIQUE_VALIDATED", "NOT_UNIQUE"}

Fields ==
    {"name", "type", "master", "permissions", "scope", "unique",
     "min_length", "max_length", "pattern", "enum", "array_type",
     "array_enum", "description", "display_name", "master_override_priority"}

\* 'f' in attr
Has(attr, f) == attr[f] # Absent
\* attr.get(f)
Get(attr, f) == IF Has(attr, f) THEN attr[f] ELSE None

-----------------------------------------------------------------------------
(* The validator object and its finding lists *)

\* one finding: the message (its kind, the value and the property or file
\* it names) and the stage of the run it was discovered in
Msg(at, code, subj, extra) == [code |-> code, subj |-> subj, extra |-> extra, at |-> at]

\* a list that grows at its head
PushFront(list, m) == <<m>> \o list

\* list.append
Push(list, m) == Append(list, m)

AddError(v, code, subj, extra) ==
    [v EXCEPT !.errors = Push(@, Msg(v.at, code, subj, extra))]
AddWarning(v, code, subj, extra) ==
    [v EXCEPT !.warnings = Push(@, Msg(v.at, code, subj, extra))]
AddInfo(v, code, subj, extra) ==
    [v EXCEPT !.info = Push(@, Msg(v.at, code, subj, extra))]

\* an exception leaves the statement and propagates: nothing catches it
\* between the evaluators and the interpreter
Raise(v) == [v EXCEPT !.raised = TRUE]

\* the next statement runs unless an exception is propagating
Then(v, F(_)) == IF v.raised THEN v ELSE F(v)

\* AttributeValidator.__init__
NewValidator(at) ==
    [errors |-> <<>>, warnings |-> <<>>, info |-> <<>>, raised |-> FALSE, at |-> at]

-----------------------------------------------------------------------------
(* Attribute Evaluator *)

\* validate_attribute_name(name)
validate_attribute_name(v, name) ==
    LET reserved(w) ==
            IF ~Hashable(name) THEN Raise(w)
            ELSE IF InStrSet(name, RESERVED_ATTRIBUTES)
                 THEN AddWarning(w, "ReservedName", name, "")
                 ELSE w
        convention(w) ==
            IF ~IsStr(name) THEN Raise(w)
            ELSE IF ~NameMatches(Chars(name.val))
                 THEN AddError(w, "NamingConvention", name, "")
                 ELSE w
        edges(w) ==
            IF StartsWith(Chars(name.val), "_") \/ EndsWith(Chars(name.val), "_")
            THEN AddWarning(w, "EdgeUnderscore", name, "")
            ELSE w
        doubled(w) ==
            IF Contains(Chars(name.val), <<"_", "_">>)
            THEN AddWarning(w, "DoubleUnderscore", name, "")
            ELSE w
    IN  Then(Then(Then(reserved(v), convention), edges), doubled)

\* the check of one optional enumerated field:
\*   x = attr.get(f);  if x and x not in VALID: self.errors.append(...)
CheckOptionalEnum(v, attr, name, f, valid, code) ==
    LET x == Get(attr, f)
    IN  IF ~Truthy(x) THEN v
        ELSE IF ~Hashable(x) THEN Raise(v)
        ELSE IF ~InStrSet(x, valid) THEN AddError(v, code, name, f)
        ELSE v

\* the properties a boolean or a number should not carry, in the order of
\* invalid_props
InvalidProps == <<"pattern", "min_length", "max_length", "enum">>

RECURSIVE WarnInvalidProps(_, _, _, _)
WarnInvalidProps(v, attr, name, i) ==
    IF i > Len(InvalidProps) THEN v
    ELSE WarnInvalidProps(
            IF Has(attr, InvalidProps[i])
            THEN AddWarning(v, "StringPropOnNonString", name, InvalidProps[i])
            ELSE v,
            attr, name, i + 1)

\* validate_type_specific(name, attr)
validate_type_specific(v, name, attr) ==
    LET attr_type == Get(attr, "type")
        lengths(w) ==
            IF Has(attr, "min_length") /\ Has(attr, "max_length")
            THEN IF ~Comparable(attr["min_length"], attr["max_length"]) THEN Raise(w)
                 ELSE IF PyGreater(attr["min_length"], attr["max_length"])
                      THEN AddError(w, "MinGreaterThanMax", name, "min_length")
                      ELSE w
            ELSE w
        pattern(w) ==
            IF Has(attr, "pattern")
            THEN IF ~IsStr(attr["pattern"]) THEN Raise(w)
                 ELSE IF ~ReCompiles(Chars(attr["pattern"].val))
                      THEN AddError(w, "InvalidRegex", name, "pattern")
                      ELSE w
            ELSE w
        enum(w) ==
            IF Has(attr, "enum") /\ attr["enum"].kind # "list"
            THEN AddError(w, "EnumNotList", name, "enum")
            ELSE w
        array_type(w) ==
            IF ~Has(attr, "array_type")
            THEN AddError(w, "MissingArrayType", name, "array_type")
            ELSE w
        array_enum(w) ==
            IF Has(attr, "array_enum") /\ attr["array_enum"].kind # "list"
            THEN AddError(w, "ArrayEnumNotList", name, "array_enum")
            ELSE w
    IN  IF EqStr(attr_type, "string") THEN Then(Then(lengths(v), pattern), enum)
        ELSE IF EqStr(attr_type, "array") THEN Then(array_type(v), array_enum)
        ELSE IF EqStr(attr_type, "boolean") THEN WarnInvalidProps(v, attr, name, 1)
        ELSE IF InStrSet(attr_type, {"number", "integer"}) THEN WarnInvalidProps(v, attr, name, 1)
        ELSE v

sensitive_patterns == {"password", "secret", "token", "key", "credential"}

\* check_best_practices(name, attr); name is a str here, validate_attribute_name
\* having raised otherwise
check_best_practices(v, name, attr) ==
    LET description(w) ==
            IF ~Has(attr, "description")
            THEN AddWarning(w, "MissingDescription", name, "description")
            ELSE w
        display_name(w) ==
            IF ~Has(attr, "display_name")
            THEN AddInfo(w, "MissingDisplayName", name, "display_name")
            ELSE w
        priority(w) ==
            IF EqStr(Get(attr, "master"), "OVERRIDE") /\ ~Has(attr, "master_override_priority")
            THEN AddError(w, "OverrideWithoutPriority", name, "master_override_priority")
            ELSE w
        sensitive(w) ==
            IF ~IsStr(name) THEN Raise(w)
            ELSE IF /\ \E p \in sensitive_patterns :
                          Contains(LowerOf(Chars(name.val)), Chars(p))
                    /\ ~EqStr(Get(attr, "permissions"), "HIDE")
                 THEN AddWarning(w, "SensitiveNotHidden", name, "permissions")
                 ELSE w
        composite(w) ==
            IF InStrSet(Get(attr, "type"), {"array", "object"}) /\ Truthy(Get(attr, "unique"))
            THEN AddWarning(w, "UniqueOnComposite", name, "unique")
            ELSE w
    IN  Then(Then(Then(Then(description(v), display_name), priority), sensitive), composite)

\* validate_attribute without the return after the missing 'type' finding
validate_attribute_unstopped(v, attr) ==
    LET name == IF Has(attr, "name") THEN attr["name"] ELSE Str("unknown")
    IN  IF ~Has(attr, "name") THEN AddError(v, "MissingName", None, "name")
        ELSE IF ~Has(attr, "type")
             THEN check_best_practices(AddError(v, "MissingType", name, "type"), name, attr)
             ELSE check_best_practices(v, name, attr)

\* validate_attribute(attr)
validate_attribute(v, attr) ==
    LET name == IF Has(attr, "name") THEN attr["name"] ELSE Str("unknown")
        type(w) ==
            IF ~Hashable(Get(attr, "type")) THEN Raise(w)
            ELSE IF ~InStrSet(Get(attr, "type"), VALID_TYPES)
                 THEN AddError(w, "InvalidType", name, "type")
                 ELSE w
        master(w) == CheckOptionalEnum(w, attr, name, "master", VALID_MASTERS, "InvalidMaster")
        permissions(w) ==
            CheckOptionalEnum(w, attr, name, "permissions", VALID_PERMISSIONS, "InvalidPermissions")
        scope(w) == CheckOptionalEnum(w, attr, name, "scope", VALID_SCOPES, "InvalidScope")
        unique(w) == CheckOptionalEnum(w, attr, name, "unique", VALID_UNIQUE, "InvalidUnique")
        type_specific(w) == validate_type_specific(w, name, attr)
        best_practices(w) == check_best_practices(w, name, attr)
    IN  IF ~Has(attr, "name") THEN AddError(v, "MissingName", None, "name")
        ELSE IF ~Has(attr, "type") THEN AddError(v, "MissingType", name, "type")
        ELSE Then(Then(Then(Then(Then(Then(Then(
                validate_attribute_name(v, name),
                type), master), permissions), scope), unique),
                type_specific), best_practices)

\* for attr in attrs: self.validate_attribute(attr)
RECURSIVE ValidateEach(_, _, _)
ValidateEach(v, attrs, i) ==
    IF v.raised \/ i > Len(attrs) THEN v
    ELSE ValidateEach(validate_attribute(v, attrs[i]), attrs, i + 1)

-----------------------------------------------------------------------------
(* Files.  A file is [status, doc]: status says how reading it ends        *)
(* ("missing" is an override file that does not exist), doc is what        *)
(* yaml.safe_load returns.  A document is [kind, version, metadata,        *)
(* attributes, overrides, additions]: kind "none" is an empty file, "map"  *)
(* a mapping, "list" a non-empty sequence and "int" a non-zero number at   *)
(* the top level; version and metadata say whether the key is there and    *)
(* the three others are [k, items]: the key is absent, null, or a list.    *)

NoKey == [k |-> "absent", items |-> <<>>]
NullVal == [k |-> "null", items |-> <<>>]
Items(s) == [k |-> "list", items |-> s]

Doc(kind, version, metadata, attributes, overrides, additions) ==
    [kind |-> kind, version |-> version, metadata |-> metadata,
     attributes |-> attributes, overrides |-> overrides, additions |-> additions]

\* {}
EmptyDict == Doc("map", FALSE, FALSE, NoKey, NoKey, NoKey)
NoneDoc == Doc("none", FALSE, FALSE, NoKey, NoKey, NoKey)
ListDoc == Doc("list", FALSE, FALSE, NoKey, NoKey, NoKey)
IntDoc == Doc("int", FALSE, FALSE, NoKey, NoKey, NoKey)

File(status, doc) == [status |-> status, doc |-> doc]

\* bool(data)
DocTruthy(d) ==
    CASE d.kind = "none" -> FALSE
      [] d.kind = "map" ->
            \/ d.version
            \/ d.metadata
            \/ d.attributes.k # "absent"
            \/ d.overrides.k # "absent"
            \/ d.additions.k # "absent"
      [] OTHER -> TRUE

\* 'key' in data, for a mapping or a list (a list of the model holds none
\* of the keys); on a number the operator raises
DocHasKey(d, key) ==
    /\ d.kind = "map"
    /\ CASE key = "version" -> d.version
         [] key = "metadata" -> d.metadata
         [] OTHER -> d[key].k # "absent"

BasePath == "custom_attributes.yaml"
environments == <<"dev", "qa", "val", "prod">>

\* load_yaml_file(file_path)
load_yaml_file(v, file, path) ==
    CASE file.status = "ok" -> [v |-> v, ret |-> file.doc]
      [] file.status = "yamlerror" ->
            [v |-> AddError(v, "YamlSyntaxError", None, path), ret |-> EmptyDict]
      [] file.status = "notfound" ->
            [v |-> AddError(v, "FileNotFound", None, path), ret |-> EmptyDict]
      [] OTHER ->
            [v |-> AddError(v, "LoadError", None, path), ret |-> EmptyDict]

\* for override in data.get('overrides', []): if 'name' not in override: ...
RECURSIVE CheckOverrideNames(_, _, _, _)
CheckOverrideNames(v, items, path, i) ==
    IF i > Len(items) THEN v
    ELSE CheckOverrideNames(
            IF ~Has(items[i], "name")
            THEN AddError(v, "OverrideMissingName", None, path)
            ELSE v,
            items, path, i + 1)

\* validate_file(file_path, is_override)
validate_file(v, file, path, is_override) ==
    LET ld == load_yaml_file(v, file, path)
        data == ld.ret
        version(w) ==
            IF ~DocHasKey(data, "version")
            THEN AddWarning(w, "MissingVersion", None, path)
            ELSE w
        metadata(w) ==
            IF ~DocHasKey(data, "metadata")
            THEN AddInfo(w, "MissingMetadata", None, path)
            ELSE w
        overrides(w) ==
            IF DocHasKey(data, "overrides")
            THEN IF data.overrides.k = "null" THEN Raise(w)
                 ELSE CheckOverrideNames(w, data.overrides.items, path, 1)
            ELSE w
        additions(w) ==
            IF DocHasKey(data, "additions")
            THEN IF data.additions.k = "null" THEN Raise(w)
                 ELSE ValidateEach(w, data.additions.items, 1)
            ELSE w
        attributes(w) ==
            IF ~DocHasKey(data, "attributes")
            THEN AddError(w, "MissingAttributesSection", None, path)
            ELSE IF data.attributes.k = "null" THEN Raise(w)
                 ELSE ValidateEach(w, data.attributes.items, 1)
        body(w) ==
            IF is_override THEN Then(overrides(w), additions) ELSE attributes(w)
    IN  IF ~DocTruthy(data) THEN [v |-> ld.v, ret |-> EmptyDict]
        ELSE IF data.kind = "int" THEN [v |-> Raise(ld.v), ret |-> data]
        ELSE [v |-> Then(Then(version(ld.v), metadata), body), ret |-> data]

\* check_duplicates(all_attributes); seen holds the keys of the dict
RECURSIVE DuplicatesFrom(_, _, _, _)
DuplicatesFrom(v, attrs, i, seen) ==
    IF v.raised \/ i > Len(attrs) THEN v
    ELSE LET name == Get(attrs[i], "name")
         IN  IF ~Truthy(name) THEN DuplicatesFrom(v, attrs, i + 1, seen)
             ELSE IF ~Hashable(name) THEN Raise(v)
             ELSE DuplicatesFrom(
                    IF \E s \in seen : PyEq(s, name)
                    THEN AddError(v, "DuplicateName", name, "name")
                    ELSE v,
                    attrs, i + 1, seen \cup {name})

check_duplicates(v, all_attributes) == DuplicatesFrom(v, all_attributes, 1, {})

RECURSIVE OverridesFrom(_, _, _, _)
OverridesFrom(v, overrides, base_names, i) ==
    IF v.raised \/ i > Len(overrides) THEN v
    ELSE LET name == Get(overrides[i], "name")
         IN  IF ~Truthy(name)
             THEN OverridesFrom(AddError(v, "OverrideMissingNameField", None, "name"),
                                overrides, base_names, i + 1)
             ELSE IF ~Hashable(name) THEN Raise(v)
             ELSE OverridesFrom(
                    IF ~(\E b \in base_names : PyEq(b, name))
                    THEN AddWarning(v, "OverrideNoBase", name, "name")
                    ELSE v,
                    overrides, base_names, i + 1)

\* validate_overrides(overrides, base_attrs)
validate_overrides(v, overrides, base) ==
    LET named == {i \in 1..Len(base) : Has(base[i], "name")}
        base_names == {base[i]["name"] : i \in named}
    IN  IF \E b \in base_names : ~Hashable(b) THEN Raise(v)
        ELSE OverridesFrom(v, overrides, base_names, 1)

-----------------------------------------------------------------------------
(* Inputs of a run *)

\* the input of one run holds at most this many records and anomalies
MaxWeight == 3

Blank == [f \in Fields |-> Absent]

\* the valid attribute of the end-to-end example
JobTitle ==
    [Blank EXCEPT !["name"] = Str("job_title"), !["type"] = Str("string"),
                  !["description"] = Str("a"), !["display_name"] = Str("a"),
                  !["permissions"] = Str("READ_ONLY")]
\* a sensitive name that is not hidden: one WARNING
SecretCode ==
    [Blank EXCEPT !["name"] = Str("secret_code"), !["type"] = Str("string"),
                  !["description"] = Str("a"), !["display_name"] = Str("a"),
                  !["permissions"] = Str("READ_WRITE")]
\* master OVERRIDE without a priority and no display_name: one ERROR, one INFO
MgrLevel ==
    [Blank EXCEPT !["name"] = Str("mgr_level"), !["type"] = Str("string"),
                  !["description"] = Str("a"), !["master"] = Str("OVERRIDE")]
NoName == [Blank EXCEPT !["type"] = Str("string")]
\* name: 5
IntName == [Blank EXCEPT !["name"] = Int(5), !["type"] = Str("string")]
GhostAttr ==
    [Blank EXCEPT !["name"] = Str("ghost_attr"), !["type"] = Str("boolean"),
                  !["description"] = Str("a"), !["display_name"] = Str("a")]

BaseAttrs == {JobTitle, SecretCode, MgrLevel, NoName, IntName}
AdditionAttrs == {GhostAttr, MgrLevel, IntName}

Override(name) == [f \in {"name"} |-> name]
OverrideEntries ==
    {Override(Str("job_title")), Override(Str("ghost_attr")), Override(Absent),
     Override(Str("")), Override(List(1))}

SeqsUpTo(S, n) == UNION {[1..k -> S] : k \in 0..n}

\* what one file adds to the size of the input: an override file that
\* exists counts one, a file that does not load or is no mapping one, and
\* a mapping one per missing version or metadata key, per null list and per
\* record
FieldWeight(x) == IF x.k = "null" THEN 1 ELSE Len(x.items)

DocWeight(d) ==
    (IF d.version THEN 0 ELSE 1) + (IF d.metadata THEN 0 ELSE 1)
    + FieldWeight(d.attributes) + FieldWeight(d.overrides) + FieldWeight(d.additions)

Weight(file, is_override) ==
    IF file.status = "missing" THEN 0
    ELSE IF file.status # "ok" \/ file.doc.kind # "map" THEN 1
    ELSE DocWeight(file.doc) + (IF is_override THEN 1 ELSE 0)

\* the values of a list-valued key of weight at most n
ListValues(S, n) ==
    {NoKey} \cup {NullVal : i \in 1..n} \cup {Items(s) : s \in SeqsUpTo(S, n)}

BaseFiles ==
    {f \in
        {File(s, NoneDoc) : s \in {"notfound", "yamlerror", "ioerror"}}
        \cup {File("ok", d) : d \in {NoneDoc, ListDoc, IntDoc}}
        \cup {File("ok", Doc("map", ver, md, a, NoKey, NoKey)) :
                ver \in BOOLEAN, md \in BOOLEAN, a \in ListValues(BaseAttrs, MaxWeight)} :
     Weight(f, FALSE) <= MaxWeight}

EnvDocs ==
    UNION {{Doc("map", ver, md, NoKey, o, a) :
                ver \in BOOLEAN, md \in BOOLEAN,
                a \in ListValues(AdditionAttrs, MaxWeight - (1 + FieldWeight(o)))} :
           o \in ListValues(OverrideEntries, MaxWeight - 1)}

EnvFiles ==
    {f \in
        {File(s, NoneDoc) : s \in {"missing", "yamlerror", "ioerror"}}
        \cup {File("ok", d) : d \in {NoneDoc, ListDoc, IntDoc}}
        \cup {File("ok", d) : d \in EnvDocs} :
     Weight(f, TRUE) <= MaxWeight}

EnvFilesWithin == [b \in 0..MaxWeight |-> {f \in EnvFiles : Weight(f, TRUE) <= b}]

-----------------------------------------------------------------------------
(* The run: main() and validate_all() *)

BaseStage == 1
DuplicateStage == 2
EnvStage(i) == DuplicateStage + i

\* the validator object at a stage of the run
Self(at) ==
    [errors |-> errors, warnings |-> warnings, info |-> info, raised |-> FALSE, at |-> at]

\* the lists of the validator object after a step; an exception that
\* propagates ends the process with status 1
Store(v, next) ==
    /\ errors' = v.errors
    /\ warnings' = v.warnings
    /\ info' = v.info
    /\ pc' = IF v.raised THEN "crashed" ELSE next
    /\ exit_code' = IF v.raised THEN "1" ELSE exit_code

Init ==
    /\ errors = <<>>
    /\ warnings = <<>>
    /\ info = <<>>
    /\ pc = "base"
    /\ strict \in BOOLEAN
    /\ base_data = EmptyDict
    /\ base_attrs = <<>>
    /\ env_i = 1
    /\ arg = File("missing", NoneDoc)
    /\ success = FALSE
    /\ exit_code = "running"
    /\ budget = MaxWeight

\* base_attrs = base_data.get('attributes', []);  len(base_attrs)
\* on r, what validate_file returned with the validator after it
AttributesOf(r) ==
    IF r.v.raised THEN r.v
    ELSE IF r.ret.kind # "map" \/ r.ret.attributes.k = "null" THEN Raise(r.v)
    ELSE r.v

BaseStep(file, r, got) ==
    /\ Store(got, "duplicates")
    /\ base_data' = IF r.v.raised THEN base_data ELSE r.ret
    /\ base_attrs' = IF got.raised THEN base_attrs ELSE r.ret.attributes.items
    /\ arg' = file
    /\ budget' = budget - Weight(file, FALSE)

\* base_data = self.validate_file(base_file, is_override=False) and the
\* statements up to the duplicate check
ValidateBase ==
    /\ pc = "base"
    /\ \E file \in BaseFiles :
        BaseStep(file,
                 validate_file(Self(BaseStage), file, BasePath, FALSE),
                 AttributesOf(validate_file(Self(BaseStage), file, BasePath, FALSE)))
    /\ UNCHANGED <<strict, env_i, success>>

\* self.check_duplicates(base_attrs)
CheckDuplicates ==
    /\ pc = "duplicates"
    /\ Store(check_duplicates(Self(DuplicateStage), base_attrs), "env")
    /\ UNCHANGED <<strict, base_data, base_attrs, env_i, arg, success, budget>>

\* the body of the loop once override_file.exists(): on r, what
\* validate_file returned, validate_overrides and the two len() calls
AfterOverrideFile(r, base) ==
    LET checked ==
            IF DocHasKey(r.ret, "overrides")
            THEN validate_overrides(r.v, r.ret.overrides.items, base)
            ELSE r.v
    IN  IF r.v.raised THEN r.v
        ELSE IF checked.raised THEN checked
        ELSE IF r.ret.kind # "map" THEN Raise(checked)
        ELSE checked

EnvStep(file, got) ==
    /\ Store(got, IF env_i = Len(environments) THEN "summary" ELSE "env")
    /\ arg' = file
    /\ budget' = budget - Weight(file, TRUE)

\* one iteration of: for env in environments
ValidateEnv ==
    /\ pc = "env"
    /\ env_i <= Len(environments)
    /\ \E file \in EnvFilesWithin[budget] :
        EnvStep(file,
                IF file.status = "missing"
                THEN AddInfo(Self(EnvStage(env_i)), "OverrideFileNotFound", None,
                             environments[env_i])
                ELSE AfterOverrideFile(
                        validate_file(Self(EnvStage(env_i)), file, environments[env_i], TRUE),
                        base_attrs))
    /\ env_i' = env_i + 1
    /\ UNCHANGED <<strict, base_data, base_attrs, success>>

\* the final status of validate_all: return False if self.errors else True
Summary ==
    /\ pc = "summary"
    /\ success' = (errors = <<>>)
    /\ pc' = "main"
    /\ UNCHANGED <<errors, warnings, info, strict, base_data, base_attrs, env_i, arg, exit_code, budget>>

\* main(): if args.strict and validator.warnings: success = False
\*         sys.exit(0 if success else 1)
Exit ==
    /\ pc = "main"
    /\ success' = IF strict /\ warnings # <<>> THEN FALSE ELSE success
    /\ exit_code' = IF success' THEN "0" ELSE "1"
    /\ pc' = "done"
    /\ UNCHANGED <<errors, warnings, info, strict, base_data, base_attrs, env_i, arg, budget>>

Next == ValidateBase \/ CheckDuplicates \/ ValidateEnv \/ Summary \/ Exit

Spec == Init /\ [][Next]_vars

-----------------------------------------------------------------------------
(* The Attribute Evaluator on its own: validate_attribute applied to one   *)
(* record, any record that differs from JobTitle in at most MaxDeviations  *)
(* fields.                                                                 *)

MaxDeviations == 3

FieldValues(f) ==
    CASE f = "name" ->
            {Absent, Str("job_title"), Str("email"), Str(""), Str("_api__KEY"), Int(5), List(1)}
      [] f = "type" ->
            {Absent, Str("string"), Str("array"), Str("boolean"), Str("integer"),
             Str("object"), Str("varchar"), None, List(1)}
      [] f = "master" -> {Absent, Str("OKTA"), Str("OVERRIDE"), Str("ROOT"), Str("")}
      [] f = "permissions" -> {Absent, Str("HIDE"), Str("READ_ONLY"), Str("ALL"), None}
      [] f = "scope" -> {Absent, Str("SELF"), Str("TEAM"), Int(0)}
      [] f = "unique" -> {Absent, Str("NOT_UNIQUE"), Str("YES"), Bool(FALSE), Bool(TRUE)}
      [] f = "min_length" -> {Absent, Int(5), Str("a")}
      [] f = "max_length" -> {Absent, Int(3), Int(7), Str("b")}
      [] f = "pattern" -> {Absent, Str("^[a-z]+$"), Str("("), Int(5)}
      [] f = "enum" -> {Absent, List(2), Str("a")}
      [] f = "array_type" -> {Absent, Str("string")}
      [] f = "array_enum" -> {Absent, List(2), Str("a")}
      [] f = "description" -> {Absent, Str("a")}
      [] f = "display_name" -> {Absent, Str("a")}
      [] OTHER -> {Absent, Int(1)}

\* the number of fields in which a record differs from JobTitle
Distance(r) == Cardinality({f \in Fields : r[f] # JobTitle[f]})

Idle ==
    /\ errors = <<>>
    /\ warnings = <<>>
    /\ info = <<>>
    /\ strict = FALSE
    /\ base_data = EmptyDict
    /\ base_attrs = <<>>
    /\ env_i = 1
    /\ success = FALSE
    /\ exit_code = "running"
    /\ budget = 0

InitAttr ==
    /\ Idle
    /\ pc = "attribute"
    /\ arg = JobTitle

\* the caller's record: one more field of it is set, changed or removed
ChooseField ==
    /\ pc = "attribute"
    /\ \E f \in Fields : \E x \in FieldValues(f) :
        /\ arg' = [arg EXCEPT ![f] = x]
        /\ Distance(arg') <= MaxDeviations
    /\ UNCHANGED <<errors, warnings, info, pc, strict, base_data, base_attrs, env_i, success,
                   exit_code, budget>>

\* self.validate_attribute(attr)
EvalAttribute ==
    /\ pc = "attribute"
    /\ Store(validate_attribute(Self(BaseStage), arg), "returned")
    /\ UNCHANGED <<strict, base_data, base_attrs, env_i, arg, success, budget>>

NextAttr == ChooseField \/ EvalAttribute

SpecAttr == InitAttr /\ [][NextAttr]_vars

-----------------------------------------------------------------------------
(* The Duplicate Detector on its own: check_duplicates applied to a        *)
(* sequence of at most MaxRecords records.                                 *)

MaxRecords == 4

Named(n) == [Blank EXCEPT !["name"] = n]

DupRecords == {Named(n) : n \in {Absent, Str("a"), Str("b"), Str(""), List(1)}}

InitDup ==
    /\ Idle
    /\ pc = "duplicates"
    /\ arg \in SeqsUpTo(DupRecords, MaxRecords)

\* self.check_duplicates(all_attributes)
EvalDuplicates ==
    /\ pc = "duplicates"
    /\ Store(check_duplicates(Self(DuplicateStage), arg), "returned")
    /\ UNCHANGED <<strict, base_data, base_attrs, env_i, arg, success, budget>>

SpecDup == InitDup /\ [][EvalDuplicates]_vars

-----------------------------------------------------------------------------
(* Properties *)

Count(list, P(_)) == Cardinality({i \in 1..Len(list) : P(list[i])})
HasCode(list, code) == \E i \in 1..Len(list) : list[i].code = code
IsPrefix(s, t) == Len(s) <= Len(t) /\ \A i \in 1..Len(s) : t[i] = s[i]

Finished == pc \in {"done", "crashed"}
NoFailure == errors = <<>> /\ (strict => warnings = <<>>)

\* C1: for every run, the exit status is zero if and only if the run
\* recorded no ERROR and, in strict mode, no WARNING either.
ExitZeroIffNoFailure == Finished => ((exit_code = "0") <=> NoFailure)

\* In support of C1: the equivalence holds of every run that reaches sys.exit.
ExitOfCompletedRun == pc = "done" => ((exit_code = "0") <=> NoFailure)

FatalCodes == {"YamlSyntaxError", "FileNotFound", "LoadError"}
FatalRecorded == \E i \in 1..Len(errors) : errors[i].code \in FatalCodes

\* C2: a run in which a file failed to load (not found, parse error, read
\* error) is never aborted: it goes on through the remaining environments to
\* the final verdict.
FatalFileNeverAborts == FatalRecorded => pc # "crashed"

\* In support of C2: the step that meets the file-level fatal condition
\* appends exactly one ERROR, nothing else, leaves an empty data set and
\* moves on to the next stage.
FatalStepContinues ==
    [][(pc \in {"base", "env"} /\ arg'.status \notin {"ok", "missing"}) =>
          /\ Len(errors') = Len(errors) + 1
          /\ IsPrefix(errors, errors')
          /\ errors'[Len(errors')].code \in FatalCodes
          /\ warnings' = warnings
          /\ info' = info
          /\ pc' \in {"duplicates", "env", "summary"}
          /\ (pc = "base" => base_attrs' = <<>> /\ base_data' = EmptyDict)]_vars

\* the state right after the base file was read (validated or crashed on)
BaseJustRead == pc \in {"duplicates", "crashed"} /\ env_i = 1

\* C3: a base file that loads and has no `attributes` key leaves an ERROR on
\* the file and does not crash.
MissingAttributesIsError ==
    (BaseJustRead /\ arg.status = "ok" /\ ~DocHasKey(arg.doc, "attributes")) =>
        (pc # "crashed" /\ HasCode(errors, "MissingAttributesSection"))

\* C4: no exception leaves validate_attribute, whatever the record.
EvaluatorNeverRaises == pc # "crashed"

\* C5: a record without `name`, or with `name` and without `type`, gets
\* exactly one ERROR and no other finding, whatever else it carries.
MissingRequiredFieldOneError ==
    (pc \in {"returned", "crashed"} /\ (~Has(arg, "name") \/ ~Has(arg, "type"))) =>
        /\ pc = "returned"
        /\ Len(errors) = 1
        /\ errors[1].code = (IF ~Has(arg, "name") THEN "MissingName" ELSE "MissingType")
        /\ warnings = <<>>
        /\ info = <<>>

\* a record without `type` whose name is reserved and whose master is
\* OVERRIDE without a priority, evaluated
MissingTypeEvaluated ==
    /\ pc = "returned"
    /\ arg["name"] = Str("email")
    /\ ~Has(arg, "type")
    /\ arg["master"] = Str("OVERRIDE")
    /\ Len(errors) = 1

EnumFields == {"type", "master", "permissions", "scope", "unique"}
Catalog(f) ==
    CASE f = "type" -> VALID_TYPES
      [] f = "master" -> VALID_MASTERS
      [] f = "permissions" -> VALID_PERMISSIONS
      [] f = "scope" -> VALID_SCOPES
      [] f = "unique" -> VALID_UNIQUE
ErrorCode(f) ==
    CASE f = "type" -> "InvalidType"
      [] f = "master" -> "InvalidMaster"
      [] f = "permissions" -> "InvalidPermissions"
      [] f = "scope" -> "InvalidScope"
      [] f = "unique" -> "InvalidUnique"

Evaluated == pc = "returned" /\ Has(arg, "name") /\ Has(arg, "type")

\* C6: for each enumerated field of a record with name and type, the
\* evaluator records that field's ERROR if and only if the field is present
\* with a value outside its catalog.
EnumErrorIffPresentInvalid ==
    Evaluated =>
        \A f \in EnumFields :
            HasCode(errors, ErrorCode(f)) <=> (Has(arg, f) /\ ~InStrSet(arg[f], Catalog(f)))

\* In support of C6: what the code does instead for the four optional
\* fields, whose value must also be truthy.
EnumErrorIffTruthyInvalid ==
    Evaluated =>
        \A f \in EnumFields :
            HasCode(errors, ErrorCode(f)) <=>
                /\ Has(arg, f)
                /\ ~InStrSet(arg[f], Catalog(f))
                /\ (f = "type" \/ Truthy(arg[f]))

NamedIn(s) == {i \in 1..Len(s) : Has(s[i], "name")}
NamesOf(s) == {s[i]["name"] : i \in NamedIn(s)}

\* C7: the Duplicate Detector records one ERROR per record whose name
\* repeats an earlier one: as many as named records minus distinct names.
DuplicateErrorsCountRepeats ==
    pc = "returned" =>
        Len(errors) + Cardinality(NamesOf(arg)) = Cardinality(NamedIn(arg))

\* In support of C7: the count holds of the records whose name is truthy.
TruthyIn(s) == {i \in 1..Len(s) : Truthy(Get(s[i], "name"))}
DuplicateErrorsCountTruthyRepeats ==
    pc = "returned" =>
        Len(errors) + Cardinality({arg[i]["name"] : i \in TruthyIn(arg)})
            = Cardinality(TruthyIn(arg))

\* the state right after an override file was read and checked
EnvJustRead == pc \in {"env", "summary"} /\ env_i > 1 /\ arg.status = "ok"
OverridesRead == IF DocHasKey(arg.doc, "overrides") THEN arg.doc.overrides.items ELSE <<>>
Unmatched(s) == {i \in NamedIn(s) : s[i]["name"] \notin NamesOf(base_attrs)}
IsOverrideWarning(m) == m.at = EnvStage(env_i - 1) /\ m.code = "OverrideNoBase"
IsOverrideError(m) ==
    /\ m.at = EnvStage(env_i - 1)
    /\ m.code \in {"OverrideMissingName", "OverrideMissingNameField"}

\* C8: every override entry whose name is no base attribute name gets one
\* WARNING and no ERROR, an entry whose name is a base name gets nothing:
\* a file whose override entries all have a name gets as many WARNINGs as
\* unmatched entries and no override ERROR.
UnmatchedOverrideWarnsOnce ==
    (EnvJustRead /\ NamedIn(OverridesRead) = 1..Len(OverridesRead)) =>
        /\ Count(warnings, IsOverrideWarning) = Cardinality(Unmatched(OverridesRead))
        /\ Count(errors, IsOverrideError) = 0

\* In support of C8: the same of the files whose override names are truthy.
TruthyOverrideWarnsOnce ==
    (EnvJustRead /\ TruthyIn(OverridesRead) = 1..Len(OverridesRead)) =>
        /\ Count(warnings, IsOverrideWarning) = Cardinality(Unmatched(OverridesRead))
        /\ Count(errors, IsOverrideError) = 0

IsEnvMissing(m) == m.code = "OverrideFileNotFound"
NoEnvFile == Count(info, IsEnvMissing) = Len(environments)
Clean ==
    /\ success
    /\ exit_code = "0"
    /\ errors = <<>>
    /\ warnings = <<>>
    /\ Len(info) = Len(environments)

\* C9 as stated: a base file with the one valid attribute job_title and no
\* override file ends with success, no ERROR, no WARNING, four INFOs and
\* exit status 0.
JobTitleRunClean ==
    (pc = "done" /\ base_attrs = <<JobTitle>> /\ NoEnvFile) => Clean

\* C9 as amended: the same of a base file that also declares `version` and
\* `metadata`.
VersionedJobTitleRunClean ==
    (pc = "done" /\ base_attrs = <<JobTitle>> /\ NoEnvFile
        /\ base_data.version /\ base_data.metadata) => Clean

JobTitleRunDone ==
    /\ pc = "done"
    /\ base_data = Doc("map", TRUE, TRUE, Items(<<JobTitle>>), NoKey, NoKey)
    /\ NoEnvFile
    /\ strict
    /\ exit_code = "0"

StageOrdered(list) ==
    \A i, j \in 1..Len(list) : i < j => list[i].at <= list[j].at

\* the stage a file-level finding belongs to by the file its text names
PathStage(path) ==
    IF path = BasePath THEN BaseStage
    ELSE EnvStage(CHOOSE k \in 1..Len(environments) : environments[k] = path)
FileCodes ==
    FatalCodes \cup {"MissingVersion", "MissingMetadata", "MissingAttributesSection",
                     "OverrideMissingName", "OverrideFileNotFound"}
StageTold(list) ==
    \A i \in 1..Len(list) :
        /\ list[i].code \in FileCodes => list[i].at = PathStage(list[i].extra)
        /\ list[i].code = "DuplicateName" <=> list[i].at = DuplicateStage

\* C10: the finding lists only grow at their end, and within each list the
\* findings of the base file come first, then the duplicate names, then the
\* findings of dev, qa, val and prod in that order.
FindingsAppendOnlyInOrder ==
    [][/\ IsPrefix(errors, errors')
       /\ IsPrefix(warnings, warnings')
       /\ IsPrefix(info, info')
       /\ StageOrdered(errors') /\ StageTold(errors')
       /\ StageOrdered(warnings') /\ StageTold(warnings')
       /\ StageOrdered(info') /\ StageTold(info')]_vars

\* a completed run with ERRORs of the base file, of the duplicate check and
\* of an environment, and INFOs of the base file and of several environments
FindingsOfEveryStage ==
    /\ pc = "done"
    /\ \E i, j, k \in 1..Len(errors) :
        /\ errors[i].at = BaseStage
        /\ errors[j].at = DuplicateStage
        /\ errors[k].at > DuplicateStage
    /\ \E i, j, k \in 1..Len(info) :
        /\ info[i].at = BaseStage
        /\ info[j].at > DuplicateStage
        /\ info[k].at > info[j].at

=============================================================================
